---- MODULE Spec2Model ----
(***************************************************************************)
(* gh-generate-codeql-report: the command's run (cmd/root.go), the alert   *)
(* fetch client with its rate-limit retry loop (pkg/codeql/client.go) and  *)
(* the CSV reader/writer (pkg/csv).                                        *)
(*                                                                         *)
(* Strings that the code inspects character by character (the Repository   *)
(* and Alert Number fields, the cells produced by strconv.Itoa) are        *)
(* sequences of one-character strings; other texts are plain strings.      *)
(* The clock counts minutes.  Local computation takes no time; time passes *)
(* while a request is in flight and while the client sleeps.               *)
(***************************************************************************)
EXTENDS Integers, Sequences, FiniteSets, TLC

\* ---------------------------------------------------------------- bounds
MaxRows == 2        \* data rows of the input file
MaxRepoLen == 3     \* characters of a Repository field
MaxNumLen == 2      \* characters of an Alert Number field
Tick == 10          \* minutes per clock step
MaxNow == 40        \* the clock stops here

\* ------------------------------------------------------ program constants
Timeout == 30       \* context.WithTimeout(..., 30*time.Minute)
StatusForbidden == 403   \* http.StatusForbidden

\* An optional value (a nil pointer, a file that may not exist) is a sequence
\* of length zero or one.
Nil == <<>>
Some(x) == <<x>>

\* ------------------------------------------------------------ characters
RepoAlphabet == {"o", "/"}
NumAlphabet == {"7", "-"}

StringsUpTo(alphabet, n) == UNION {[1..k -> alphabet] : k \in 0..n}

RepoStrings == StringsUpTo(RepoAlphabet, MaxRepoLen)
NumStrings == StringsUpTo(NumAlphabet, MaxNumLen)

Digits == <<"0", "1", "2", "3", "4", "5", "6", "7", "8", "9">>

IsDigit(c) == \E d \in 1..10 : Digits[d] = c

DigitValue(c) == (CHOOSE d \in 1..10 : Digits[d] = c) - 1

\* ------------------------------------------------ strings.Split(s, sep)
\* One more piece than there are separators; pieces may be empty.
RECURSIVE Split(_, _)
Split(s, sep) ==
    IF \A k \in 1..Len(s) : s[k] # sep
    THEN <<s>>
    ELSE LET k == CHOOSE j \in 1..Len(s) :
                      s[j] = sep /\ \A m \in 1..(j - 1) : s[m] # sep
         IN  <<SubSeq(s, 1, k - 1)>> \o Split(SubSeq(s, k + 1, Len(s)), sep)

\* ------------------------------------------- strconv.ParseInt(s, 10, 64)
\* An optional sign, then one or more decimal digits.  The range error of
\* 64 bits needs 19 digits and is out of reach of MaxNumLen.
RECURSIVE ParseUint(_, _)
ParseUint(s, acc) ==
    IF s = <<>> THEN [ok |-> TRUE, val |-> acc]
    ELSE IF ~IsDigit(Head(s)) THEN [ok |-> FALSE, val |-> 0]
    ELSE ParseUint(Tail(s), acc * 10 + DigitValue(Head(s)))

\* Variant: the sign is dropped.
ParseIntUnsigned(s) ==
    IF s = <<>> THEN [ok |-> FALSE, val |-> 0]
    ELSE LET body == IF Head(s) \in {"+", "-"} THEN Tail(s) ELSE s
         IN  IF body = <<>> THEN [ok |-> FALSE, val |-> 0]
             ELSE ParseUint(body, 0)

\* Variant: a sign without digits parses as zero.
ParseIntBareSign(s) ==
    IF s = <<>> THEN [ok |-> FALSE, val |-> 0]
    ELSE LET body == IF Head(s) \in {"+", "-"} THEN Tail(s) ELSE s
             u    == ParseUint(body, 0)
         IN  IF ~u.ok THEN [ok |-> FALSE, val |-> 0]
             ELSE [ok |-> TRUE, val |-> IF Head(s) = "-" THEN 0 - u.val ELSE u.val]

ParseInt(s) ==
    IF s = <<>> THEN [ok |-> FALSE, val |-> 0]
    ELSE LET neg  == Head(s) = "-"
             body == IF Head(s) \in {"+", "-"} THEN Tail(s) ELSE s
             u    == IF body = <<>> THEN [ok |-> FALSE, val |-> 0]
                     ELSE ParseUint(body, 0)
         IN  IF ~u.ok THEN [ok |-> FALSE, val |-> 0]
             ELSE [ok |-> TRUE, val |-> IF neg THEN 0 - u.val ELSE u.val]

\* ------------------------------------------------------- strconv.Itoa(n)
RECURSIVE UDigits(_)
UDigits(n) ==
    IF n < 10 THEN <<Digits[n + 1]>>
    ELSE UDigits(n \div 10) \o <<Digits[(n % 10) + 1]>>

Itoa(n) == IF n < 0 THEN <<"-">> \o UDigits(0 - n) ELSE UDigits(n)

\* ------------------------------------------------------------ input rows
Row(repo, num) == [Repository |-> repo, AlertNumber |-> num]

\* A well-formed row, a row without a slash, a row with a non-numeric number.
SampleRows ==
    { Row(<<"o", "/", "o">>, <<"7">>),
      Row(<<"o", "o">>, <<"7">>),
      Row(<<"o", "/", "o">>, <<"x">>) }

AllRows == {Row(r, n) : r \in RepoStrings, n \in NumStrings} \cup SampleRows

\* Input files: any first row, the following rows from SampleRows.
InputFiles ==
    {<<>>} \cup
    UNION { {<<r>> \o t : r \in AllRows, t \in [1..k -> SampleRows]}
            : k \in 0..(MaxRows - 1) }

\* ------------------------------------------------------- the input file
\* A file is the sequence of its lines as encoding/csv hands them over, each
\* line a sequence of cells; the first line holds the column names.
InputHeader == <<"Repository", "Alert Number">>

LineOf(row) == <<row.Repository, row.AlertNumber>>

\* The same columns in another order, with a column the program never reads.
WideHeader == <<"Alert Number", "Note", "Repository">>

WideLineOf(row) == <<row.AlertNumber, <<"n">>, row.Repository>>

SampleFiles == UNION {[1..k -> SampleRows] : k \in 1..MaxRows}

WellFormedFiles ==
    {<<InputHeader>> \o [k \in 1..Len(f) |-> LineOf(f[k])] : f \in InputFiles}
    \cup
    {<<WideHeader>> \o [k \in 1..Len(f) |-> WideLineOf(f[k])] : f \in SampleFiles}

\* Files with one line that has a cell too few or a cell too many.
BadLines(row) ==
    { <<row.Repository>>, <<row.Repository, row.AlertNumber, <<"n">>>> }

WithLine(f, p, line) ==
    <<InputHeader>> \o [k \in 1..Len(f) |-> IF k = p THEN line ELSE LineOf(f[k])]

MalformedFiles ==
    UNION { UNION { {WithLine(f, p, bad) : bad \in BadLines(f[p])}
                    : p \in 1..Len(f) }
            : f \in SampleFiles }

\* What the file system can hold at the input path; <<>> is an empty file.
RawFiles == WellFormedFiles \cup MalformedFiles \cup {<<>>}

\* rowMap of ReadAllWithHeaders: rowMap[header] = row[i] for every i in turn,
\* so a repeated column name keeps its last cell.
rowMap(headers, row) ==
    [h \in {headers[j] : j \in 1..Len(headers)} |->
        row[CHOOSE j \in 1..Len(headers) :
                /\ headers[j] = h
                /\ \A m \in (j + 1)..Len(headers) : headers[m] # h]]

\* Variant: a line of the wrong length is left out and the read succeeds.
ReadAllWithHeadersSkipping(file) ==
    IF file = Nil THEN [err |-> "failed to open file", rows |-> <<>>]
    ELSE IF file[1] = <<>> THEN [err |-> "failed to read CSV headers", rows |-> <<>>]
    ELSE LET headers == file[1][1]
             good    == SelectSeq(Tail(file[1]),
                                  LAMBDA l : Len(l) = Len(headers))
         IN  [err |-> "",
              rows |-> [k \in 1..Len(good) |-> rowMap(headers, good[k])]]

\* Reader.ReadAllWithHeaders on the file at the input path (Nil: no file).
ReadAllWithHeaders(file) ==
    IF file = Nil THEN [err |-> "failed to open file", rows |-> <<>>]
    ELSE IF file[1] = <<>> THEN [err |-> "failed to read CSV headers", rows |-> <<>>]
    ELSE LET headers == file[1][1]
             lines   == Tail(file[1])
         IN  IF \E k \in 1..Len(lines) : Len(lines[k]) # Len(headers)
             THEN [err |-> "row length does not match header length",
                   rows |-> <<>>]
             ELSE [err |-> "",
                   rows |-> [k \in 1..Len(lines) |-> rowMap(headers, lines[k])]]

\* record[key] of a Go map: the empty string when the key is absent.
Get(record, key) == IF key \in DOMAIN record THEN record[key] ELSE <<>>

\* The two fields of a record that generateReport reads.
recordView(record) == Row(Get(record, "Repository"), Get(record, "Alert Number"))

\* ------------------------------------------------- the remote API's data
\* What the server reports for an alert: its number, the rule's severity
\* and descriptions, the most recent instance's location.
ServerAlerts ==
    { [Number |-> 3, Severity |-> "high", Description |-> "short",
       FullDescription |-> "full", Path |-> "src/main.go",
       StartLine |-> 10, StartColumn |-> 1, EndLine |-> 12, EndColumn |-> 5],
      [Number |-> 12, Severity |-> "", Description |-> "",
       FullDescription |-> "", Path |-> "",
       StartLine |-> 0, StartColumn |-> 0, EndLine |-> 0, EndColumn |-> 0] }

Times == {t \in 0..MaxNow : t % Tick = 0}

LastTime == MaxNow - (MaxNow % Tick)

\* resp.Rate: remaining quota and reset time.
Rates == [Remaining : {0, 1}, Reset : Times]

\* The rate of an answered request: the quota window ends later.
OkRates == [Remaining : {0, 1}, Reset : {LastTime}]

\* ---------------------------------------------- responses of the remote API
\* What one attempt of ghClient.CodeScanning.GetAlert returns: (alert, resp, err).
\*   err = "": the alert and a response;
\*   hasResp = FALSE: no response at all (network failure, cancelled context).
OkResponses ==
    [err : {""}, hasResp : {TRUE}, StatusCode : {200}, Rate : OkRates,
     alert : {Some(a) : a \in ServerAlerts}]

\* 403 with any rate, and 404.
HttpErrors ==
    [err : {"http"}, hasResp : {TRUE}, StatusCode : {StatusForbidden},
     Rate : Rates, alert : {Nil}]
    \cup
    { [err |-> "http", hasResp |-> TRUE, StatusCode |-> 404,
       Rate |-> [Remaining |-> 1, Reset |-> LastTime],
       alert |-> Nil] }

NoRate == [Remaining |-> 0, Reset |-> 0]

NetError ==
    [err |-> "network", hasResp |-> FALSE, StatusCode |-> 0, Rate |-> NoRate,
     alert |-> Nil]

Cancelled ==
    [err |-> "context deadline exceeded", hasResp |-> FALSE, StatusCode |-> 0,
     Rate |-> NoRate, alert |-> Nil]

\* ---------------------------------------------------------------- state
VARIABLES
    token, inputFile,     \* the --token and --input flags
    inFile,               \* the input file: Nil or its lines
    outFile,              \* the output file: Nil or its lines
    pc,                   \* where the run is
    exitCode,             \* Nil while running, then 0 or 1
    errMsg,               \* the error the run ended with
    records,              \* generateReport: rows read from the input
    i,                    \* generateReport: index of the current row
    alerts,               \* generateReport: alerts fetched so far
    csvData,              \* generateReport: output rows so far
    processErrors,        \* generateReport: rows that failed
    now,                  \* the clock
    deadline,             \* ctx's deadline
    lastRate,             \* Client.lastRate
    call,                 \* GetAlert's arguments while a call is running
    req,                  \* the request in flight
    wakeAt,               \* when time.Sleep returns
    \* history, for stating the properties
    outcome,              \* per processed row: what happened to it
    attempts,             \* requests issued by the latest GetAlert call
    signals,              \* rate-limit signals received by the latest call
    waitFor,              \* latest reset time signalled to the latest call
    lastResp,             \* the response the client received last
    handed,               \* the rows handed to Writer.WriteAll
    writerCalls,          \* calls of Writer.WriteAll
    writeResult,          \* what Writer.WriteAll returned: "" or its error
    \* the writer and the reader on the bytes of one file (SpecCsv)
    csvPc,                \* "off", "ready", "written", "failed", "read"
    csvRows,              \* the records given to Writer.WriteAll
    csvBytes,             \* the file: Nil or its characters
    csvBack               \* what ReadAllWithHeaders returned for the file

vars == <<token, inputFile, inFile, outFile, pc, exitCode, errMsg, records, i,
          alerts, csvData, processErrors, now, deadline, lastRate, call, req,
          wakeAt, outcome, attempts, signals, waitFor, lastResp, handed,
          writerCalls, writeResult, csvPc, csvRows, csvBytes, csvBack>>

flagVars == <<token, inputFile, inFile>>
loopVars == <<records, i, alerts, csvData, processErrors>>
clientVars == <<lastRate, call, req, wakeAt>>
histVars == <<outcome, attempts, signals, waitFor, lastResp>>
writeVars == <<outFile, handed, writerCalls, writeResult>>
codecVars == <<csvPc, csvRows, csvBytes, csvBack>>

\* outputHeaders of generateReport
outputHeaders ==
    <<"Org", "Repo", "Alert ID", "Severity", "Short Description",
      "Full Description", "File Path", "Start Line", "Start Column",
      "End Line", "End Column">>

\* An output file left by an earlier run.
OldContent == <<outputHeaders, <<"old">>>>

Init ==
    /\ token \in {"", "ghp"}
    /\ inputFile \in {"", "alerts.csv"}
    /\ inFile \in {Nil} \cup {Some(f) : f \in RawFiles}
    /\ outFile \in {Nil, Some(OldContent)}
    /\ pc = "start"
    /\ exitCode = Nil
    /\ errMsg = Nil
    /\ records = <<>>
    /\ i = 0
    /\ alerts = <<>>
    /\ csvData = <<>>
    /\ processErrors = 0
    /\ now = 0
    /\ deadline = Timeout
    /\ lastRate = Nil
    /\ call = Nil
    /\ req = Nil
    /\ wakeAt = 0
    /\ outcome = <<>>
    /\ attempts = 0
    /\ signals = 0
    /\ waitFor = 0
    /\ lastResp = Nil
    /\ handed = Nil
    /\ writerCalls = 0
    /\ writeResult = Nil
    /\ csvPc = "off"
    /\ csvRows = <<>>
    /\ csvBytes = Nil
    /\ csvBack = Nil

\* ---------------------------------------------------------- validateFlags
\* Variant: the input flag is not checked.
validateFlagsTokenOnly(tok, inp) ==
    IF tok = "" THEN <<"token">> ELSE <<>>

\* The names of the required flags that are empty, in the order checked;
\* the error is returned when this list is not empty.
validateFlags(tok, inp) ==
    (IF tok = "" THEN <<"token">> ELSE <<>>) \o
    (IF inp = "" THEN <<"input">> ELSE <<>>)

Fail(kind, flags) ==
    /\ errMsg' = Some([kind |-> kind, flags |-> flags])
    /\ exitCode' = Some(1)
    /\ pc' = "done"

\* RootCmd.Run: a required flag is missing; os.Exit(1) before generateReport.
RunMissingFlags ==
    /\ pc = "start"
    /\ validateFlags(token, inputFile) # <<>>
    /\ Fail("required flag(s) not provided", validateFlags(token, inputFile))
    /\ UNCHANGED <<flagVars, codecVars, loopVars, now, deadline, clientVars, histVars,
                   writeVars>>

\* RootCmd.Run -> generateReport: ReadAllWithHeaders fails.
RunReadFails ==
    /\ pc = "start"
    /\ validateFlags(token, inputFile) = <<>>
    /\ ReadAllWithHeaders(inFile).err # ""
    /\ Fail("failed to read input CSV", <<>>)
    /\ UNCHANGED <<flagVars, codecVars, loopVars, now, deadline, clientVars, histVars,
                   writeVars>>

\* RootCmd.Run -> generateReport: the input is read and the loop begins.
RunReads ==
    /\ pc = "start"
    /\ validateFlags(token, inputFile) = <<>>
    /\ LET read == ReadAllWithHeaders(inFile)
       IN  /\ read.err = ""
           /\ records' = [k \in 1..Len(read.rows) |-> recordView(read.rows[k])]
    /\ i' = 1
    /\ pc' = "loop"
    /\ UNCHANGED <<flagVars, codecVars, alerts, csvData, processErrors, exitCode, errMsg,
                   now, deadline, clientVars, histVars, writeVars>>

\* ------------------------------------------------------ generateReport
\* Variant: more than two parts are accepted.
repoFormatAtLeastTwo(repoParts) == Len(repoParts) >= 2

\* len(repoParts) != 2 is the only test of the Repository field.
repoFormatOK(repoParts) == Len(repoParts) = 2

\* Variant: a failed row is not stepped over.
nextAfterErrorStay(idx, n) == idx

\* Variant: a failed row ends the loop.
nextAfterErrorBreak(idx, n) == n + 1

\* processErrors++ ; continue
nextAfterError(idx, n) == idx + 1

\* Variant: the new row is added twice.
appendRowTwice(data, row) == Append(Append(data, row), row)

\* Variant: the new row is put in front.
appendRowFront(data, row) == <<row>> \o data

\* csvData = append(csvData, row)
appendRow(data, row) == Append(data, row)

\* The Alert that GetAlert builds from its arguments and the server's answer.
BuildAlert(owner, repo, a) ==
    [Owner |-> owner, Repo |-> repo, ID |-> a.Number,
     Severity |-> a.Severity, ShortDesc |-> a.Description,
     FullDesc |-> a.FullDescription, FilePath |-> a.Path,
     StartLine |-> a.StartLine, StartColumn |-> a.StartColumn,
     EndLine |-> a.EndLine, EndColumn |-> a.EndColumn]

\* Variant: Start Column and End Line change places.
csvRowSwapped(alert) ==
    <<alert.Owner, alert.Repo, Itoa(alert.ID), alert.Severity,
      alert.ShortDesc, alert.FullDesc, alert.FilePath,
      Itoa(alert.StartLine), Itoa(alert.EndLine),
      Itoa(alert.StartColumn), Itoa(alert.EndColumn)>>

\* The output row of an Alert.
csvRow(alert) ==
    <<alert.Owner, alert.Repo, Itoa(alert.ID), alert.Severity,
      alert.ShortDesc, alert.FullDesc, alert.FilePath,
      Itoa(alert.StartLine), Itoa(alert.StartColumn),
      Itoa(alert.EndLine), Itoa(alert.EndColumn)>>

Outcome(kind, alert) == [kind |-> kind, alert |-> alert]

\* The row fails: it is counted and the loop goes on.
RowError(kind) ==
    /\ processErrors' = processErrors + 1
    /\ i' = nextAfterError(i, Len(records))
    /\ outcome' = Append(outcome, Outcome(kind, Nil))
    /\ pc' = "loop"
    /\ UNCHANGED <<records, alerts, csvData>>

InLoop == pc = "loop" /\ i <= Len(records)

\* Loop body: the Repository field does not split into two parts.
RowBadRepo ==
    /\ InLoop
    /\ ~repoFormatOK(Split(records[i].Repository, "/"))
    /\ RowError("badrepo")
    /\ UNCHANGED <<flagVars, codecVars, exitCode, errMsg, now, deadline, clientVars,
                   attempts, signals, waitFor, lastResp, writeVars>>

\* Loop body: the Alert Number field does not parse.
RowBadNumber ==
    /\ InLoop
    /\ repoFormatOK(Split(records[i].Repository, "/"))
    /\ ~ParseInt(records[i].AlertNumber).ok
    /\ RowError("badnum")
    /\ UNCHANGED <<flagVars, codecVars, exitCode, errMsg, now, deadline, clientVars,
                   attempts, signals, waitFor, lastResp, writeVars>>

\* Loop body: client.GetAlert is called and issues its first request.
RowFetch ==
    /\ InLoop
    /\ LET repoParts == Split(records[i].Repository, "/")
           n         == ParseInt(records[i].AlertNumber)
       IN  /\ repoFormatOK(repoParts)
           /\ n.ok
           /\ call' = Some([owner |-> repoParts[1], repo |-> repoParts[2],
                            alertNumber |-> n.val])
    /\ req' = call'
    /\ attempts' = 1
    /\ signals' = 0
    /\ waitFor' = 0
    /\ pc' = "inflight"
    /\ UNCHANGED <<flagVars, codecVars, exitCode, errMsg, loopVars, now, deadline,
                   lastRate, wakeAt, outcome, lastResp, writeVars>>

\* ------------------------------------------------------ Client.GetAlert
\* Variant: past the deadline the call is not cancelled and nothing comes
\* back.
ResponsesUncancelled(t, d) ==
    IF t >= d THEN {}
    ELSE OkResponses \cup HttpErrors \cup {NetError}

\* What the remote call can return at time t under a context that expires
\* at time d: past the deadline the call fails by cancellation.
Responses(t, d) ==
    IF t >= d THEN {Cancelled}
    ELSE OkResponses \cup HttpErrors \cup {NetError}

\* Variant: the remaining quota is not looked at.
isRateLimitAnyQuota(r, t) ==
    /\ r.hasResp
    /\ r.StatusCode = StatusForbidden
    /\ r.Rate.Reset - t > 0

\* Variant: a rate-limit signal is treated as any other failure.
isRateLimitNever(r, t) == FALSE

\* The rate-limit test of a failed attempt: a response, 403, no quota left
\* and a reset time still ahead.
isRateLimit(r, t) ==
    /\ r.hasResp
    /\ r.StatusCode = StatusForbidden
    /\ r.Rate.Remaining = 0
    /\ r.Rate.Reset - t > 0

\* Variant: the sleep is skipped.
sleepUntilNow(r, t) == t

\* time.Sleep(reset) started at t with reset = rl.Reset - t ends at t + reset.
sleepUntil(r, t) == t + (r.Rate.Reset - t)

\* The request issued after the sleep.
retryRequest(c) == c

Max(a, b) == IF a >= b THEN a ELSE b

\* A failed attempt that is a rate-limit signal: the client goes to sleep.
RespondRateLimited ==
    /\ pc = "inflight"
    /\ \E r \in Responses(now, deadline) :
        /\ r.err # ""
        /\ isRateLimit(r, now)
        /\ wakeAt' = sleepUntil(r, now)
        /\ waitFor' = Max(waitFor, r.Rate.Reset)
        /\ lastResp' = Some(r)
    /\ signals' = signals + 1
    /\ req' = Nil
    /\ pc' = "sleeping"
    /\ UNCHANGED <<flagVars, codecVars, exitCode, errMsg, loopVars, now, deadline,
                   lastRate, call, outcome, attempts, writeVars>>

\* time.Sleep returns and the loop of GetAlert issues the request again.
WakeAndRetry ==
    /\ pc = "sleeping"
    /\ now >= wakeAt
    /\ req' = retryRequest(call)
    /\ attempts' = attempts + 1
    /\ pc' = "inflight"
    /\ UNCHANGED <<flagVars, codecVars, exitCode, errMsg, loopVars, now, deadline,
                   lastRate, call, wakeAt, outcome, signals, waitFor, lastResp,
                   writeVars>>

\* A failed attempt that is no rate-limit signal: GetAlert returns the
\* wrapped error and generateReport counts the row as failed.
RespondError ==
    /\ pc = "inflight"
    /\ \E r \in Responses(now, deadline) :
        /\ r.err # ""
        /\ ~isRateLimit(r, now)
        /\ lastResp' = Some(r)
    /\ RowError("fetcherr")
    /\ call' = Nil
    /\ req' = Nil
    /\ UNCHANGED <<flagVars, codecVars, exitCode, errMsg, now, deadline, lastRate, wakeAt,
                   attempts, signals, waitFor, writeVars>>

\* A successful attempt: GetAlert stores the rate and returns the Alert;
\* generateReport appends it and its output row.
RespondOK ==
    /\ pc = "inflight"
    /\ \E r \in Responses(now, deadline) :
        /\ r.err = ""
        /\ lastRate' = Some(r.Rate)
        /\ lastResp' = Some(r)
        /\ LET alert == BuildAlert(call[1].owner, call[1].repo, r.alert[1])
           IN  /\ alerts' = Append(alerts, alert)
               /\ csvData' = appendRow(csvData, csvRow(alert))
        /\ outcome' = Append(outcome, Outcome("ok", r.alert))
    /\ i' = i + 1
    /\ call' = Nil
    /\ req' = Nil
    /\ pc' = "loop"
    /\ UNCHANGED <<flagVars, codecVars, exitCode, errMsg, records, processErrors, now,
                   deadline, wakeAt, attempts, signals, waitFor, writeVars>>

\* Time passes while a request is in flight or the client sleeps.
TickClock ==
    /\ pc \in {"inflight", "sleeping"}
    /\ now + Tick <= MaxNow
    /\ now' = now + Tick
    /\ UNCHANGED <<flagVars, codecVars, outFile, pc, exitCode, errMsg, loopVars, deadline,
                   clientVars, histVars, handed, writerCalls, writeResult>>

\* ------------------------------------------------------- Writer.WriteAll
\* The file after a complete write: the header, then the records.
FileOf(headers, recs) == <<headers>> \o recs

Prefixes(lines) == {SubSeq(lines, 1, k) : k \in 0..(Len(lines) - 1)}

\* Variant: the loop ends one row early.
LoopDoneEarly == pc = "loop" /\ i >= Len(records)

LoopDone == pc = "loop" /\ i > Len(records)

CallWriter(result) ==
    /\ LoopDone
    /\ handed' = Some(csvData)
    /\ writerCalls' = writerCalls + 1
    /\ writeResult' = Some(result)

\* After the loop: the file is created, written and flushed.
WriteOK ==
    /\ CallWriter("")
    /\ outFile' = Some(FileOf(outputHeaders, csvData))
    /\ exitCode' = Some(0)
    /\ pc' = "done"
    /\ UNCHANGED <<flagVars, codecVars, errMsg, loopVars, now, deadline, clientVars,
                   histVars>>

\* After the loop: os.Create fails; the file system is left as it was.
WriteCreateFails ==
    /\ CallWriter("failed to create file")
    /\ Fail("failed to write output CSV", <<>>)
    /\ UNCHANGED <<flagVars, codecVars, outFile, loopVars, now, deadline, clientVars,
                   histVars>>

\* After the loop: the file is created (truncated) and a write fails.
WriteFails ==
    /\ CallWriter("failed to write CSV")
    /\ \E part \in Prefixes(FileOf(outputHeaders, csvData)) :
        outFile' = Some(part)
    /\ Fail("failed to write output CSV", <<>>)
    /\ UNCHANGED <<flagVars, codecVars, loopVars, now, deadline, clientVars, histVars>>

Next ==
    \/ RunMissingFlags
    \/ RunReadFails
    \/ RunReads
    \/ RowBadRepo
    \/ RowBadNumber
    \/ RowFetch
    \/ RespondRateLimited
    \/ WakeAndRetry
    \/ RespondError
    \/ RespondOK
    \/ TickClock
    \/ WriteOK
    \/ WriteCreateFails
    \/ WriteFails

Spec == Init /\ [][Next]_vars

\* The program runs on: it takes its next step, time passes while it waits,
\* a sleep ends, and a request in flight ends in an answer or, past the
\* deadline, in its cancellation.
\* The runs of FairSpec start from the input files made of sample rows (or
\* from none).
InitFair ==
    /\ Init
    /\ inFile \in {Nil} \cup
          {Some(<<InputHeader>> \o [k \in 1..Len(f) |-> LineOf(f[k])]) :
             f \in SampleFiles}

FairSpec == InitFair /\ [][Next]_vars /\ WF_vars(Next)

TypeOK ==
    /\ pc \in {"start", "loop", "inflight", "sleeping", "done"}
    /\ now \in Times
    /\ processErrors \in 0..MaxRows
    /\ Len(csvData) = Len(alerts)

\* ======================================================================
\* The writer and the reader on the characters of a file
\* ======================================================================
\* Spec keeps a file as its lines of cells.  SpecCsv keeps the characters
\* that encoding/csv writes and reads, for WriteAll followed by
\* ReadAllWithHeaders on the same path.  A text without any of the
\* characters below (a column name, a word) is one symbol.
MaxCellLen == 2     \* characters of a varied cell

COMMA == ","
QUOTE == "QUOTE"
CR == "CR"
LF == "LF"
SPACE == " "

CsvAlphabet == {"a", COMMA, QUOTE, CR, LF, SPACE}

CsvCells == StringsUpTo(CsvAlphabet, MaxCellLen)

\* outputHeaders as cells.
CsvHeader == [k \in 1..Len(outputHeaders) |-> <<outputHeaders[k]>>]

\* Rows of as many cells as the header: plain cells and one varied cell.
CsvRowWith(p, cell) ==
    [k \in 1..Len(CsvHeader) |-> IF k = p THEN cell ELSE <<"a">>]

CsvAllRows == {CsvRowWith(p, c) : p \in 1..Len(CsvHeader), c \in CsvCells}

CsvSampleRows == {CsvRowWith(1, <<"a">>), CsvRowWith(2, <<QUOTE, COMMA>>)}

CsvRowLists ==
    {<<>>} \cup
    UNION { {<<r>> \o t : r \in CsvAllRows, t \in [1..k -> CsvSampleRows]}
            : k \in 0..(MaxRows - 1) }

\* ----------------------------------------------------- csv.Writer.Write
IndexOf(s, c) ==
    IF \E k \in 1..Len(s) : s[k] = c
    THEN CHOOSE k \in 1..Len(s) : s[k] = c /\ \A m \in 1..(k - 1) : s[m] # c
    ELSE 0

\* fieldNeedsQuotes: a delimiter, a quote, a line break, or a leading space.
fieldNeedsQuotes(field) ==
    /\ field # <<>>
    /\ \/ \E k \in 1..Len(field) : field[k] \in {COMMA, QUOTE, CR, LF}
       \/ field[1] = SPACE

RECURSIVE EscapeQuotes(_)
EscapeQuotes(field) ==
    IF field = <<>> THEN <<>>
    ELSE (IF Head(field) = QUOTE THEN <<QUOTE, QUOTE>> ELSE <<Head(field)>>)
         \o EscapeQuotes(Tail(field))

EncodeField(field) ==
    IF fieldNeedsQuotes(field)
    THEN <<QUOTE>> \o EscapeQuotes(field) \o <<QUOTE>>
    ELSE field

RECURSIVE EncodeFields(_)
EncodeFields(record) ==
    IF record = <<>> THEN <<>>
    ELSE IF Len(record) = 1 THEN EncodeField(record[1])
    ELSE EncodeField(Head(record)) \o <<COMMA>> \o EncodeFields(Tail(record))

\* One record: the fields, separated by commas, and a line feed.
EncodeRecord(record) == EncodeFields(record) \o <<LF>>

RECURSIVE EncodeAll(_)
EncodeAll(recs) ==
    IF recs = <<>> THEN <<>>
    ELSE EncodeRecord(Head(recs)) \o EncodeAll(Tail(recs))

\* ------------------------------------------------------- csv.Reader.Read
\* The physical lines, each with its line feed.
RECURSIVE PhysLines(_)
PhysLines(b) ==
    IF b = <<>> THEN <<>>
    ELSE LET k == IndexOf(b, LF)
         IN  IF k = 0 THEN <<b>>
             ELSE <<SubSeq(b, 1, k)>> \o PhysLines(SubSeq(b, k + 1, Len(b)))

\* readLine: CR LF at the end of a line becomes LF; a CR that ends the file
\* is dropped.
readLine(l) ==
    LET n == Len(l)
    IN  IF n >= 2 /\ l[n - 1] = CR /\ l[n] = LF
        THEN SubSeq(l, 1, n - 2) \o <<LF>>
        ELSE IF n >= 1 /\ l[n] = CR THEN SubSeq(l, 1, n - 1)
        ELSE l

lengthNL(l) == IF l # <<>> /\ l[Len(l)] = LF THEN 1 ELSE 0

ParseError(msg) == [err |-> msg, fields |-> <<>>, rest |-> <<>>]

\* parseField loop of readRecord: line is what is left of the current line,
\* rest the lines after it, fields the fields read so far.
RECURSIVE ParseFields(_, _, _)
RECURSIVE ParseQuoted(_, _, _, _)
ParseFields(line, rest, fields) ==
    IF line = <<>> \/ Head(line) # QUOTE
    THEN LET k     == IndexOf(line, COMMA)
             field == IF k > 0 THEN SubSeq(line, 1, k - 1)
                      ELSE SubSeq(line, 1, Len(line) - lengthNL(line))
         IN  IF IndexOf(field, QUOTE) > 0 THEN ParseError("bare quote")
             ELSE IF k > 0
             THEN ParseFields(SubSeq(line, k + 1, Len(line)), rest,
                              Append(fields, field))
             ELSE [err |-> "", fields |-> Append(fields, field), rest |-> rest]
    ELSE ParseQuoted(Tail(line), rest, fields, <<>>)

\* Inside a quoted field; acc is the field so far.
ParseQuoted(line, rest, fields, acc) ==
    LET k == IndexOf(line, QUOTE)
    IN  IF k > 0
        THEN LET got   == acc \o SubSeq(line, 1, k - 1)
                 after == SubSeq(line, k + 1, Len(line))
             IN  IF after # <<>> /\ Head(after) = QUOTE
                 THEN ParseQuoted(Tail(after), rest, fields, Append(got, QUOTE))
                 ELSE IF after # <<>> /\ Head(after) = COMMA
                 THEN ParseFields(Tail(after), rest, Append(fields, got))
                 ELSE IF Len(after) = lengthNL(after)
                 THEN [err |-> "", fields |-> Append(fields, got),
                       rest |-> rest]
                 ELSE ParseError("extraneous quote")
        ELSE IF line # <<>> /\ rest # <<>>
        THEN ParseQuoted(readLine(Head(rest)), Tail(rest), fields, acc \o line)
        ELSE ParseError("unterminated quote")

\* Read after Read: empty lines are skipped, every record must have as many
\* fields as the first.  On an error, lines holds the records read before it.
RECURSIVE ReadRecords(_, _)
ReadRecords(lines, recs) ==
    IF lines = <<>> THEN [err |-> "", lines |-> recs]
    ELSE LET line == readLine(Head(lines))
         IN  IF Len(line) = lengthNL(line) THEN ReadRecords(Tail(lines), recs)
             ELSE LET r == ParseFields(line, Tail(lines), <<>>)
                  IN  IF r.err # "" THEN [err |-> r.err, lines |-> recs]
                      ELSE IF recs # <<>> /\ Len(r.fields) # Len(recs[1])
                      THEN [err |-> "wrong number of fields", lines |-> recs]
                      ELSE ReadRecords(r.rest, Append(recs, r.fields))

\* Reader.ReadAllWithHeaders on the characters of a file.
ReadFileWithHeaders(bytes) ==
    LET parsed == ReadRecords(PhysLines(bytes), <<>>)
    IN  IF parsed.err # ""
        THEN [err  |-> IF parsed.lines = <<>>
                       THEN "failed to read CSV headers"
                       ELSE "failed to read CSV row",
              rows |-> <<>>]
        ELSE ReadAllWithHeaders(Some(parsed.lines))

\* ------------------------------------------------------------- SpecCsv
\* What an earlier run left at the path.
OldBytes == EncodeAll(<<CsvHeader, CsvRowWith(1, <<"a">>)>>)

InitCsv ==
    /\ token = "ghp"
    /\ inputFile = "alerts.csv"
    /\ inFile = Nil
    /\ outFile = Nil
    /\ pc = "codec"
    /\ exitCode = Nil
    /\ errMsg = Nil
    /\ records = <<>>
    /\ i = 0
    /\ alerts = <<>>
    /\ csvData = <<>>
    /\ processErrors = 0
    /\ now = 0
    /\ deadline = Timeout
    /\ lastRate = Nil
    /\ call = Nil
    /\ req = Nil
    /\ wakeAt = 0
    /\ outcome = <<>>
    /\ attempts = 0
    /\ signals = 0
    /\ waitFor = 0
    /\ lastResp = Nil
    /\ handed = Nil
    /\ writerCalls = 0
    /\ writeResult = Nil
    /\ csvPc = "ready"
    /\ csvRows \in CsvRowLists
    /\ csvBytes \in {Nil, Some(OldBytes)}
    /\ csvBack = Nil

mainVars == <<flagVars, outFile, pc, exitCode, errMsg, loopVars, now, deadline,
              clientVars, histVars, handed, writerCalls, writeResult>>

\* Writer.WriteAll: os.Create empties the file, then the header and the
\* records are written and flushed.
CsvWriteAll ==
    /\ csvPc = "ready"
    /\ csvBytes' = Some(EncodeAll(<<CsvHeader>> \o csvRows))
    /\ csvPc' = "written"
    /\ UNCHANGED <<mainVars, csvRows, csvBack>>

\* Writer.WriteAll: os.Create fails.
CsvCreateFails ==
    /\ csvPc = "ready"
    /\ csvPc' = "failed"
    /\ UNCHANGED <<mainVars, csvRows, csvBytes, csvBack>>

\* Reader.ReadAllWithHeaders on the file just written.
CsvReadBack ==
    /\ csvPc = "written"
    /\ csvBack' = Some(ReadFileWithHeaders(csvBytes[1]))
    /\ csvPc' = "read"
    /\ UNCHANGED <<mainVars, csvRows, csvBytes>>

NextCsv == CsvWriteAll \/ CsvCreateFails \/ CsvReadBack

SpecCsv == InitCsv /\ [][NextCsv]_vars

\* ======================================================================
\* Properties
\* ======================================================================
Last(seq) == seq[Len(seq)]

\* The number of "/" in a string.
RECURSIVE SlashCount(_)
SlashCount(s) ==
    IF s = <<>> THEN 0
    ELSE (IF Head(s) = "/" THEN 1 ELSE 0) + SlashCount(Tail(s))

\* owner/name with both parts non-empty and no further slash.
TwoNonEmptySegments(s) ==
    /\ SlashCount(s) = 1
    /\ Head(s) # "/"
    /\ Last(s) # "/"

\* A decimal integer: an optional sign, then at least one digit.
IsIntegerText(s) ==
    LET body == IF s # <<>> /\ Head(s) \in {"+", "-"} THEN Tail(s) ELSE s
    IN  /\ body # <<>>
        /\ \A k \in 1..Len(body) :
              body[k] \in {"0", "1", "2", "3", "4", "5", "6", "7", "8", "9"}

\* The rows processed so far that were fetched, in input order.
OkIndices(out) ==
    SelectSeq([k \in 1..Len(out) |-> k], LAMBDA k : out[k].kind = "ok")

FailedCount(out) == Cardinality({k \in 1..Len(out) : out[k].kind # "ok"})

\* An output row belongs to an input row and the alert fetched for it.
Corresponds(cells, rec, a) ==
    /\ Len(cells) = Len(outputHeaders)
    /\ cells[1] \o <<"/">> \o cells[2] = rec.Repository
    /\ cells[3] = Itoa(a.Number)
    /\ cells[4] = a.Severity
    /\ cells[7] = a.Path

ExactlyFetchedRows(rows) ==
    LET idx == OkIndices(outcome)
    IN  /\ Len(rows) = Len(idx)
        /\ Len(rows) <= Len(records)
        /\ \A j \in 1..Len(rows) :
              Corresponds(rows[j], records[idx[j]], outcome[idx[j]].alert[1])

\* The input was read: the run got into the row loop.
InputRead == pc \in {"loop", "inflight", "sleeping"} \/ writerCalls > 0

\* The rate-limit signal as the claims define it.
RateLimitSignal(r, t) ==
    /\ r.hasResp
    /\ r.StatusCode = 403
    /\ r.Rate.Remaining = 0
    /\ r.Rate.Reset > t

\* A step in which the client receives the answer to its request.
Answered == pc = "inflight" /\ now' = now

\* C1: the rows accumulated, and the rows handed to the writer, are exactly
\* the successfully fetched input rows: one output row per such row, in
\* input order, never more rows than the input has.
C1_OutputIsFetchedRowsInOrder ==
    /\ ExactlyFetchedRows(csvData)
    /\ handed # Nil => handed[1] = csvData /\ Len(outcome) = Len(records)

C1_Witness ==
    /\ pc = "done"
    /\ handed # Nil
    /\ Len(records) = 2
    /\ Len(handed[1]) = 2
    /\ handed[1][1] # handed[1][2]

\* C2: failed rows never abort the run: the writer is called exactly once,
\* after every row has been processed, the run's result is the writer's
\* result, and when every row fails a successful write leaves a file that
\* holds the header only.
C2_RowErrorsNeverAbort ==
    /\ writerCalls <= 1
    /\ writerCalls = 1 => Len(outcome) = Len(records)
    /\ (InputRead /\ pc # "done") => exitCode = Nil
    /\ (InputRead /\ pc = "done") =>
          /\ writerCalls = 1
          /\ writeResult # Nil
          /\ (writeResult[1] = "") <=> (exitCode = Some(0))
          /\ (writeResult[1] # "") <=> (exitCode = Some(1))
          /\ (writeResult[1] = "" /\ processErrors = Len(records)) =>
                outFile = Some(<<outputHeaders>>)

C2_Witness ==
    /\ pc = "done"
    /\ Len(records) = 2
    /\ processErrors = 2
    /\ \E k \in 1..2 : outcome[k].kind = "fetcherr"
    /\ exitCode = Some(0)
    /\ outFile = Some(<<outputHeaders>>)

\* C3: after a rate-limit signal with reset time T ahead, GetAlert does not
\* return before T, and it issues the same request again once per signal,
\* however many signals there are.
C3_WaitsUntilResetThenRetriesOnce ==
    /\ pc = "sleeping" =>
          /\ wakeAt >= waitFor
          /\ call # Nil
          /\ attempts = signals
    /\ pc = "inflight" =>
          /\ now >= waitFor
          /\ req = call
          /\ call # Nil
          /\ attempts = signals + 1
    /\ (pc \in {"loop", "done"} /\ attempts > 0) =>
          /\ now >= waitFor
          /\ attempts = signals + 1

C3_Witness ==
    /\ pc = "loop"
    /\ signals = 2
    /\ attempts = 3
    /\ waitFor > 0
    /\ Last(outcome).kind = "ok"

\* C4: a failed attempt that is no rate-limit signal (also a 403 with quota
\* left, also a 403 whose reset time is not ahead) makes GetAlert return the
\* error at once: no sleep, no further request.
C4_OtherFailuresReturnAtOnce ==
    [][ (Answered /\ lastResp'[1].err # ""
           /\ ~RateLimitSignal(lastResp'[1], now)) =>
        /\ pc' = "loop"
        /\ call' = Nil
        /\ req' = Nil
        /\ attempts' = attempts
        /\ signals' = signals
        /\ wakeAt' = wakeAt
        /\ outcome' = Append(outcome, Outcome("fetcherr", Nil)) ]_vars

C4_Witness ==
    /\ pc = "loop"
    /\ outcome # <<>>
    /\ Last(outcome).kind = "fetcherr"
    /\ lastResp # Nil
    /\ lastResp[1].StatusCode = 403
    /\ lastResp[1].Rate.Remaining = 0
    /\ lastResp[1].Rate.Reset <= now
    /\ now > 0

\* C5: a rate-limit signal never makes GetAlert return: the orchestrator's
\* counters and rows stay as they are while the client waits, and the row
\* that is answered after the waits gives one output row and no error.
C5_RateLimitInvisible ==
    [][ /\ (Answered /\ RateLimitSignal(lastResp'[1], now)) =>
            /\ pc' = "sleeping"
            /\ i' = i
            /\ processErrors' = processErrors
            /\ csvData' = csvData
            /\ outcome' = outcome
        /\ (Answered /\ lastResp'[1].err = "") =>
            /\ Len(csvData') = Len(csvData) + 1
            /\ processErrors' = processErrors
            /\ i' = i + 1 ]_vars

C5_Witness ==
    /\ pc = "done"
    /\ Len(records) = 1
    /\ signals = 2
    /\ processErrors = 0
    /\ Len(csvData) = 1
    /\ exitCode = Some(0)

\* C6: when the deadline passes while rows remain and a fetch fails by
\* cancellation, the run ends in failure.
C6_DeadlineIsFatal ==
    (pc = "done" /\ lastResp = Some(Cancelled)) => exitCode = Some(1)

\* C7: a row whose Repository field does not hold exactly one "/" is
\* skipped: no output row, one more processing error, and the run goes on
\* to the following rows.
C7_NotOneSlashSkipped ==
    /\ \A k \in 1..Len(outcome) :
          SlashCount(records[k].Repository) # 1 => outcome[k].kind = "badrepo"
    /\ pc \in {"inflight", "sleeping"} =>
          SlashCount(records[i].Repository) = 1
    /\ processErrors = FailedCount(outcome)
    /\ Len(csvData) = Len(outcome) - FailedCount(outcome)
    /\ pc \in {"loop", "inflight", "sleeping"} => Len(outcome) = i - 1
    /\ (InputRead /\ pc = "done") => Len(outcome) = Len(records)

C7_Witness ==
    /\ pc = "done"
    /\ Len(records) = 2
    /\ SlashCount(records[1].Repository) = 2
    /\ outcome[1].kind = "badrepo"
    /\ outcome[2].kind = "ok"
    /\ processErrors = 1
    /\ exitCode = Some(0)

\* C8: a row whose Repository field is not two non-empty segments around
\* one "/" is counted as an error and no fetch is made for it.
C8_EmptySegmentNotFetched ==
    /\ \A k \in 1..Len(outcome) :
          ~TwoNonEmptySegments(records[k].Repository) =>
              outcome[k].kind = "badrepo"
    /\ pc \in {"inflight", "sleeping"} =>
          TwoNonEmptySegments(records[i].Repository)

\* C9: a row whose Alert Number field is no integer is skipped: one more
\* processing error, no fetch, no output row, and the run goes on.
C9_NonIntegerSkipped ==
    /\ \A k \in 1..Len(outcome) :
          ~IsIntegerText(records[k].AlertNumber) =>
              outcome[k].kind \in {"badrepo", "badnum"}
    /\ pc \in {"inflight", "sleeping"} =>
          IsIntegerText(records[i].AlertNumber)
    /\ processErrors = FailedCount(outcome)
    /\ Len(csvData) + processErrors = Len(outcome)
    /\ (InputRead /\ pc = "done") => Len(outcome) = Len(records)

C9_Witness ==
    /\ pc = "done"
    /\ Len(records) = 2
    /\ records[1].AlertNumber = <<"7", "-">>
    /\ outcome[1].kind = "badnum"
    /\ outcome[2].kind = "ok"
    /\ processErrors = 1
    /\ Len(csvData) = 1

\* C10: with an empty token or input flag the only thing the run does is
\* fail with exit code 1 and an error that names every missing flag: no
\* input is read, no request is issued, the output file is left alone.
MissingFlags ==
    (IF token = "" THEN {"token"} ELSE {}) \cup
    (IF inputFile = "" THEN {"input"} ELSE {})

InputUnreadable ==
    \/ inFile = Nil
    \/ /\ inFile # Nil
       /\ inFile[1] # <<>>
       /\ \E k \in 2..Len(inFile[1]) : Len(inFile[1][k]) # Len(inFile[1][1])

C11_ReadIsAllOrNothing ==
    /\ [](InputUnreadable =>
            /\ ReadAllWithHeaders(inFile).err # ""
            /\ ReadAllWithHeaders(inFile).rows = <<>>)
    /\ [][ (MissingFlags = {} /\ InputUnreadable) =>
           /\ pc = "start"
           /\ pc' = "done"
           /\ exitCode' = Some(1)
           /\ errMsg' # Nil
           /\ errMsg'[1].kind = "failed to read input CSV"
           /\ records' = <<>>
           /\ attempts' = 0
           /\ writerCalls' = 0
           /\ outFile' = outFile ]_vars

C11_Witness ==
    /\ pc = "done"
    /\ token # ""
    /\ inFile # Nil
    /\ Len(inFile[1]) = 3
    /\ Len(inFile[1][2]) = Len(inFile[1][1])
    /\ Len(inFile[1][3]) # Len(inFile[1][1])
    /\ exitCode = Some(1)
    /\ records = <<>>
    /\ outFile = Some(OldContent)

\* C13: after every attempt that returned a response, also a failed one,
\* lastRate is the rate of that response.
C13_LastRateFollowsEveryResponse ==
    (lastResp # Nil /\ lastResp[1].hasResp) => lastRate = Some(lastResp[1].Rate)

\* C14: once the deadline has passed the client is not asleep waiting for a
\* reset time that lies still ahead.
C14_NoSleepPastDeadline ==
    ~(pc = "sleeping" /\ now >= deadline /\ wakeAt > now)

\* C15: one row at a time: a request is in flight only inside the call for
\* the current row, all rows before it have their outcome, and between rows
\* no call and no request is open.
RequestFor(rec) ==
    LET s == rec.Repository
        k == CHOOSE j \in 1..Len(s) : s[j] = "/"
    IN  [owner |-> SubSeq(s, 1, k - 1), repo |-> SubSeq(s, k + 1, Len(s)),
         alertNumber |-> ParseInt(rec.AlertNumber).val]

C15_OneRowAtATime ==
    /\ req # Nil => (pc = "inflight" /\ req = call)
    /\ pc \in {"inflight", "sleeping"} =>
          /\ i \in 1..Len(records)
          /\ Len(outcome) = i - 1
          /\ call = Some(RequestFor(records[i]))
    /\ pc \in {"start", "loop", "done"} => (call = Nil /\ req = Nil)
    /\ pc = "loop" => Len(outcome) = i - 1

C15_Witness ==
    /\ pc = "inflight"
    /\ i = 2
    /\ attempts = 2
    /\ outcome[1].kind = "fetcherr"

RECURSIVE DigitsValue(_)
DigitsValue(s) ==
    IF s = <<>> THEN 0
    ELSE 10 * DigitsValue(SubSeq(s, 1, Len(s) - 1))
         + (CHOOSE n \in 0..9 : Digits[n + 1] = s[Len(s)])

TextValue(s) ==
    IF Head(s) = "-" THEN 0 - DigitsValue(Tail(s))
    ELSE IF Head(s) = "+" THEN DigitsValue(Tail(s))
    ELSE DigitsValue(s)

IsNumberCell(cell, n) ==
    LET parsed == ParseInt(cell) IN parsed.ok /\ parsed.val = n

IsOutputRowOf(cells, rec, a) ==
    LET s == rec.Repository
        k == CHOOSE j \in 1..Len(s) : s[j] = "/"
    IN  /\ Len(cells) = 11
        /\ cells[1] = SubSeq(s, 1, k - 1)
        /\ cells[2] = SubSeq(s, k + 1, Len(s))
        /\ IsNumberCell(cells[3], a.Number)
        /\ cells[4] = a.Severity
        /\ cells[5] = a.Description
        /\ cells[6] = a.FullDescription
        /\ cells[7] = a.Path
        /\ IsNumberCell(cells[8], a.StartLine)
        /\ IsNumberCell(cells[9], a.StartColumn)
        /\ IsNumberCell(cells[10], a.EndLine)
        /\ IsNumberCell(cells[11], a.EndColumn)

C17_OutputRowShape ==
    /\ [](/\ outputHeaders =
                <<"Org", "Repo", "Alert ID", "Severity", "Short Description",
                  "Full Description", "File Path", "Start Line",
                  "Start Column", "End Line", "End Column">>
          /\ writeResult = Some("") =>
                /\ outFile # Nil
                /\ Len(outFile[1]) = Len(csvData) + 1
                /\ \A j \in 1..Len(csvData) : outFile[1][j + 1] = csvData[j])
    /\ [][ csvData' # csvData =>
           \/ pc = "start" /\ csvData' = <<>>
           \/ /\ Len(csvData') = Len(csvData) + 1
              /\ SubSeq(csvData', 1, Len(csvData)) = csvData
              /\ Last(outcome').kind = "ok"
              /\ IsOutputRowOf(Last(csvData'), records[i],
                               Last(outcome').alert[1]) ]_vars

C17_Witness ==
    /\ pc = "done"
    /\ writeResult = Some("")
    /\ inFile[1][1] = WideHeader
    /\ Len(csvData) = 1
    /\ csvData[1][9] = <<"1">>
    /\ csvData[1][10] = <<"1", "2">>

\* C18: counting: output rows plus processing errors is the number of rows
\* processed, every row adds one to exactly one of the two, the alert list
\* is as long as the output rows, and at the end the sum is N.
C18_Counting ==
    /\ [](/\ Len(alerts) = Len(csvData)
          /\ pc \in {"loop", "inflight", "sleeping"} =>
                Len(csvData) + processErrors = i - 1
          /\ writerCalls > 0 => Len(csvData) + processErrors = Len(records))
    /\ [][ i' # i =>
           \/ pc = "start" /\ i' = 1 /\ csvData' = <<>> /\ processErrors' = 0
           \/ /\ i' = i + 1
              /\ \/ /\ Len(csvData') = Len(csvData) + 1
                    /\ processErrors' = processErrors
                 \/ /\ csvData' = csvData
                    /\ alerts' = alerts
                    /\ processErrors' = processErrors + 1 ]_vars

C18_Witness ==
    /\ pc = "done"
    /\ writerCalls = 1
    /\ Len(records) = 2
    /\ Len(csvData) = 1
    /\ processErrors = 1

\* C19: the output file changes only in the single write after the last
\* row: never before the input is read and every row is processed, so a
\* run that ends earlier leaves an existing file as it was.
C19_OutputWrittenLast ==
    /\ [](writerCalls > 0 => pc = "done")
    /\ [][ (outFile' # outFile \/ writerCalls' # writerCalls) =>
           /\ pc = "loop"
           /\ writerCalls = 0
           /\ writerCalls' = 1
           /\ i = Len(records) + 1
           /\ Len(outcome) = Len(records)
           /\ pc' = "done" ]_vars

C19_Witness ==
    /\ pc = "done"
    /\ exitCode = Some(1)
    /\ writerCalls = 0
    /\ token # ""
    /\ inputFile # ""
    /\ outFile = Some(OldContent)

\* C12 (as claimed): whatever the cells hold, reading the written file
\* gives back as many rows, in order, each cell equal to the written cell
\* under its header name.
SameCells(back, rows) ==
    /\ back.err = ""
    /\ Len(back.rows) = Len(rows)
    /\ \A k \in 1..Len(rows) : \A j \in 1..Len(CsvHeader) :
          back.rows[k][CsvHeader[j]] = rows[k][j]

C12_RoundTripAnyCells ==
    csvPc = "read" => SameCells(csvBack[1], csvRows)

\* A carriage return directly followed by a line feed.
HasCRLF(cell) == \E k \in 1..(Len(cell) - 1) : cell[k] = CR /\ cell[k + 1] = LF

NoCRLF(rows) ==
    \A k \in 1..Len(rows) : \A j \in 1..Len(rows[k]) : ~HasCRLF(rows[k][j])

\* Every other content of the alphabet does come back: rows none of whose
\* cells holds a carriage return directly followed by a line feed are read
\* back cell for cell.
RoundTripWithoutCRLF ==
    (csvPc = "read" /\ NoCRLF(csvRows)) => SameCells(csvBack[1], csvRows)

====
